---- MODULE Spec2Model ----
(***************************************************************************)
(* A model of the logops repository:                                       *)
(*   - syslog-detect-format.py : the two syslog regular expressions,       *)
(*     datetime.strptime under the two layouts, detect_syslog_format,      *)
(*     analyze_syslog_file and the command line entry point;               *)
(*   - backup-and-delete-logfiles-template.py (and its French twin, which  *)
(*     has the same code): process_log_files and its copy / compress /     *)
(*     delete helpers over a two-directory file system.                    *)
(* Text is a sequence of one-character strings.  An optional value (a      *)
(* Python None or a value) is a sequence of length 0 or 1.                 *)
(***************************************************************************)
EXTENDS Integers, Sequences, FiniteSets, TLC

VARIABLES
    gen,        \* the fields the input line of a detector call was built from
    line,       \* the argument of detect_syslog_format
    result,     \* what the call returned (or the exception that escaped)
    dpc,        \* position of the detector call: "call" | "returned" | "off"
    argv,       \* the positional arguments of the command line (sys.argv[1:])
    fstatus,    \* the file at the path: "ok" | "missing" | "denied"
    fcontent,   \* its lines, in order
    badline,    \* 0, or the index of a line holding bytes that are not UTF-8
    pc,         \* position of the script: "main" | "open" | "iter" | "exit" | "off"
    pos,        \* number of lines the for loop has consumed
    opens,      \* number of calls of open()
    classified, \* the lines passed to detect_syslog_format, in order
    stdout,     \* what was printed on standard output
    stderr,     \* what was printed on standard error
    exitcode,   \* the exit status of the process (-1 while it runs)
    dir1Exists, \* os.path.exists(dir1)
    dir2Exists, \* os.path.exists(dir2)
    dir1,       \* name -> entry of the source directory
    dir2,       \* name -> optional file of the destination directory
    statErr,    \* names of dir1 whose size cannot be read
    bpc,        \* position of process_log_files
    todo,       \* names of os.listdir(dir1) the loop has not visited yet
    cur,        \* the name the loop is at
    log         \* the records written through logging, in order

vars == <<gen, line, result, dpc, argv, fstatus, fcontent, badline, pc, pos,
          opens, classified, stdout, stderr, exitcode, dir1Exists, dir2Exists,
          dir1, dir2, statErr, bpc, todo, cur, log>>

detVars == <<gen, line, result, dpc>>
cliVars == <<argv, fstatus, fcontent, badline, pc, pos, opens, classified,
             stdout, stderr, exitcode>>
bakVars == <<dir1Exists, dir2Exists, dir1, dir2, statErr, bpc, todo, cur, log>>

(***************************************************************************)
(* Characters and the character classes of Python's re on str patterns.    *)
(***************************************************************************)
DigitSeq == <<"0", "1", "2", "3", "4", "5", "6", "7", "8", "9">>
UpperSeq == <<"A", "B", "C", "D", "E", "F", "G", "H", "I", "J", "K", "L", "M",
              "N", "O", "P", "Q", "R", "S", "T", "U", "V", "W", "X", "Y", "Z">>
LowerSeq == <<"a", "b", "c", "d", "e", "f", "g", "h", "i", "j", "k", "l", "m",
              "n", "o", "p", "q", "r", "s", "t", "u", "v", "w", "x", "y", "z">>

\* U+0663 ARABIC-INDIC DIGIT THREE: a decimal digit that is not ASCII.
ArabicThree == "u0663"

Range(f) == {f[i] : i \in DOMAIN f}

AsciiDigits == Range(DigitSeq)
Letters == Range(UpperSeq) \cup Range(LowerSeq)
Whitespace == {" ", "\t", "\n"}
Punct == {"_", ".", "-", ":", "<", ">", "[", "]"}
Alphabet == AsciiDigits \cup {ArabicThree} \cup Letters \cup Whitespace \cup Punct

\* \d : every Unicode decimal digit
DigitCls == AsciiDigits \cup {ArabicThree}
\* \w
WordCls == DigitCls \cup Letters \cup {"_"}
\* [\w.-]
HostCls == WordCls \cup {".", "-"}
\* .  (no DOTALL flag)
DotCls == Alphabet \ {"\n"}

\* int() of one digit
DigitVal(c) ==
    IF c = ArabicThree THEN 3
    ELSE (CHOOSE i \in 1..10 : DigitSeq[i] = c) - 1

\* str.lower() of one character
ToLower(c) ==
    IF \E i \in 1..26 : UpperSeq[i] = c
    THEN LowerSeq[CHOOSE i \in 1..26 : UpperSeq[i] = c]
    ELSE c

\* the character at position p, "" past either end
At(s, p) == IF p >= 1 /\ p <= Len(s) THEN s[p] ELSE ""

(***************************************************************************)
(* Regular expression matching.  A set of positions P holds the indices    *)
(* at which the next character would be consumed; each operator gives the  *)
(* positions reachable after one more piece of the pattern.                *)
(***************************************************************************)
Lit(s, P, c) == {p + 1 : p \in {q \in P : At(s, q) = c}}

Cls(s, P, C) == {p + 1 : p \in {q \in P : At(s, q) \in C}}

RECURSIVE RepN(_, _, _, _)
RepN(s, P, C, n) == IF n = 0 THEN P ELSE RepN(s, Cls(s, P, C), C, n - 1)

\* C{lo,hi}
Rep(s, P, C, lo, hi) == UNION {RepN(s, P, C, n) : n \in lo..hi}

RECURSIVE Star(_, _, _)
Star(s, P, C) ==
    LET Q == P \cup Cls(s, P, C)
    IN  IF Q = P THEN P ELSE Star(s, Q, C)

\* C+
Plus(s, P, C) == Star(s, Cls(s, P, C), C)

\* $ without MULTILINE: the end of the string, or just before a final newline
AtEnd(s, P) ==
    \/ Len(s) + 1 \in P
    \/ Len(s) \in P /\ At(s, Len(s)) = "\n"

\* Of the ways a pattern can match, the one the backtracking matcher finds
\* first: the optional prefix taken, then the longest timestamp.
Preferred(caps) ==
    CHOOSE c \in caps :
        \A d \in caps : d[1] < c[1] \/ (d[1] = c[1] /\ d[2] <= c[2])

\* group("timestamp") of a match, None without one
Capture(s, caps) ==
    IF caps = {} THEN <<>>
    ELSE LET c == Preferred(caps) IN <<SubSeq(s, c[1], c[2] - 1)>>

\* \d{2}:\d{2}:\d{2}
Clock(s, P) ==
    Rep(s, Lit(s, Rep(s, Lit(s, Rep(s, P, DigitCls, 2, 2), ":"),
                      DigitCls, 2, 2), ":"), DigitCls, 2, 2)

\* ^(<\d+>)?(?P<timestamp>\w{3} \d{1,2} \d{2}:\d{2}:\d{2}) ([\w.-]+) (.+)$
\* as the set of <<start, end>> of the timestamp group over all matches
Matches3164(s) ==
    LET starts == {1} \cup Lit(s, Plus(s, Lit(s, {1}, "<"), DigitCls), ">")
        tsEnd(a) == Clock(s, Lit(s, Rep(s, Lit(s, Rep(s, {a}, WordCls, 3, 3), " "),
                                        DigitCls, 1, 2), " "))
        tail(e) == AtEnd(s, Plus(s, Lit(s, Plus(s, Lit(s, {e}, " "), HostCls), " "),
                                 DotCls))
    IN  UNION {{<<a, e>> : e \in {x \in tsEnd(a) : tail(x)}} : a \in starts}

RFC3164_PATTERN(s) == Capture(s, Matches3164(s))

\* ^(<\d+>\d )?(?P<timestamp>\d{4}-\d{2}-\d{2}T\d{2}:\d{2}:\d{2}\.\d{1,6}Z)
\*  ([\w.-]+) ([\w.-]+) (\d+) (\[.*?\]|-) (.+)$
Matches5424(s) ==
    LET starts == {1} \cup
            Lit(s, Cls(s, Lit(s, Plus(s, Lit(s, {1}, "<"), DigitCls), ">"),
                       DigitCls), " ")
        date(a) == Rep(s, Lit(s, Rep(s, Lit(s, Rep(s, {a}, DigitCls, 4, 4), "-"),
                                     DigitCls, 2, 2), "-"), DigitCls, 2, 2)
        tsEnd(a) == Lit(s, Rep(s, Lit(s, Clock(s, Lit(s, date(a), "T")), "."),
                               DigitCls, 1, 6), "Z")
        host(P) == Plus(s, Lit(s, P, " "), HostCls)
        procid(P) == Plus(s, Lit(s, P, " "), DigitCls)
        sd(P) == LET Q == Lit(s, P, " ")
                 IN  Lit(s, Star(s, Lit(s, Q, "["), DotCls), "]") \cup Lit(s, Q, "-")
        tail(e) == AtEnd(s, Plus(s, Lit(s, sd(procid(host(host({e})))), " "), DotCls))
    IN  UNION {{<<a, e>> : e \in {x \in tsEnd(a) : tail(x)}} : a \in starts}

RFC5424_PATTERN(s) == Capture(s, Matches5424(s))

(***************************************************************************)
(* datetime.strptime.  The format is compiled, directive by directive,     *)
(* into one regular expression (matched with IGNORECASE, and the whole     *)
(* string must be consumed); the fields found are handed to the datetime   *)
(* constructor, which checks their ranges.  Every failure is a ValueError. *)
(* A directive's alternatives are tried in order.  The matcher never       *)
(* has to come back to a shorter alternative: in both layouts a number is  *)
(* followed by a character that is not a digit, or by the end.             *)
(***************************************************************************)
NoParse == <<-1, 0>>

InRange(c, lo, hi) == c \in AsciiDigits /\ DigitVal(c) \in lo..hi

Two(s, p) == 10 * DigitVal(At(s, p)) + DigitVal(At(s, p + 1))

\* %Y : \d\d\d\d
DirY(s, p) ==
    IF \A i \in 0..3 : At(s, p + i) \in DigitCls
    THEN <<1000 * DigitVal(At(s, p)) + 100 * DigitVal(At(s, p + 1)) + Two(s, p + 2),
           p + 4>>
    ELSE NoParse

\* %m : 1[0-2]|0[1-9]|[1-9]
DirM(s, p) ==
    IF At(s, p) = "1" /\ InRange(At(s, p + 1), 0, 2) THEN <<Two(s, p), p + 2>>
    ELSE IF At(s, p) = "0" /\ InRange(At(s, p + 1), 1, 9) THEN <<Two(s, p), p + 2>>
    ELSE IF InRange(At(s, p), 1, 9) THEN <<DigitVal(At(s, p)), p + 1>>
    ELSE NoParse

\* %d : 3[0-1]|[1-2]\d|0[1-9]|[1-9]| [1-9]
DirD(s, p) ==
    IF At(s, p) = "3" /\ InRange(At(s, p + 1), 0, 1) THEN <<Two(s, p), p + 2>>
    ELSE IF InRange(At(s, p), 1, 2) /\ At(s, p + 1) \in DigitCls THEN <<Two(s, p), p + 2>>
    ELSE IF At(s, p) = "0" /\ InRange(At(s, p + 1), 1, 9) THEN <<Two(s, p), p + 2>>
    ELSE IF InRange(At(s, p), 1, 9) THEN <<DigitVal(At(s, p)), p + 1>>
    ELSE IF At(s, p) = " " /\ InRange(At(s, p + 1), 1, 9)
         THEN <<DigitVal(At(s, p + 1)), p + 2>>
    ELSE NoParse

\* %H : 2[0-3]|[0-1]\d|\d
DirH(s, p) ==
    IF At(s, p) = "2" /\ InRange(At(s, p + 1), 0, 3) THEN <<Two(s, p), p + 2>>
    ELSE IF InRange(At(s, p), 0, 1) /\ At(s, p + 1) \in DigitCls THEN <<Two(s, p), p + 2>>
    ELSE IF At(s, p) \in DigitCls THEN <<DigitVal(At(s, p)), p + 1>>
    ELSE NoParse

\* %M : [0-5]\d|\d
DirMin(s, p) ==
    IF InRange(At(s, p), 0, 5) /\ At(s, p + 1) \in DigitCls THEN <<Two(s, p), p + 2>>
    ELSE IF At(s, p) \in DigitCls THEN <<DigitVal(At(s, p)), p + 1>>
    ELSE NoParse

\* %S : 6[0-1]|[0-5]\d|\d
DirS(s, p) ==
    IF At(s, p) = "6" /\ InRange(At(s, p + 1), 0, 1) THEN <<Two(s, p), p + 2>>
    ELSE IF InRange(At(s, p), 0, 5) /\ At(s, p + 1) \in DigitCls THEN <<Two(s, p), p + 2>>
    ELSE IF At(s, p) \in DigitCls THEN <<DigitVal(At(s, p)), p + 1>>
    ELSE NoParse

\* %f : [0-9]{1,6}, read as a fraction of a second: padded with zeros on
\* the right to six digits
RECURSIVE FracVal(_, _, _, _)
FracVal(s, p, n, acc) ==
    IF n = 6 THEN <<acc, p>>
    ELSE IF At(s, p) \in AsciiDigits
         THEN FracVal(s, p + 1, n + 1, 10 * acc + DigitVal(At(s, p)))
         ELSE FracVal(s, p, n + 1, 10 * acc)

DirF(s, p) == IF At(s, p) \in AsciiDigits THEN FracVal(s, p, 0, 0) ELSE NoParse

\* %b : the abbreviated month names of the C locale
MonthNames == << <<"j", "a", "n">>, <<"f", "e", "b">>, <<"m", "a", "r">>,
                 <<"a", "p", "r">>, <<"m", "a", "y">>, <<"j", "u", "n">>,
                 <<"j", "u", "l">>, <<"a", "u", "g">>, <<"s", "e", "p">>,
                 <<"o", "c", "t">>, <<"n", "o", "v">>, <<"d", "e", "c">> >>

DirB(s, p) ==
    LET w == <<ToLower(At(s, p)), ToLower(At(s, p + 1)), ToLower(At(s, p + 2))>>
    IN  IF \E i \in 1..12 : MonthNames[i] = w
        THEN <<CHOOSE i \in 1..12 : MonthNames[i] = w, p + 3>>
        ELSE NoParse

\* a run of whitespace in the format: \s+
RECURSIVE SkipSpace(_, _)
SkipSpace(s, p) == IF At(s, p) \in Whitespace THEN SkipSpace(s, p + 1) ELSE p

Directive(tok, s, p) ==
    CASE tok = "%Y" -> DirY(s, p)
      [] tok = "%m" -> DirM(s, p)
      [] tok = "%d" -> DirD(s, p)
      [] tok = "%H" -> DirH(s, p)
      [] tok = "%M" -> DirMin(s, p)
      [] tok = "%S" -> DirS(s, p)
      [] tok = "%f" -> DirF(s, p)
      [] tok = "%b" -> DirB(s, p)
      [] tok = " "  -> IF At(s, p) \in Whitespace THEN <<0, SkipSpace(s, p)>> ELSE NoParse
      [] OTHER      -> IF ToLower(At(s, p)) = ToLower(tok) THEN <<0, p + 1>> ELSE NoParse

FieldOf(tok) ==
    CASE tok = "%Y" -> "year"
      [] tok = "%m" -> "month"
      [] tok = "%b" -> "month"
      [] tok = "%d" -> "day"
      [] tok = "%H" -> "hour"
      [] tok = "%M" -> "minute"
      [] tok = "%S" -> "second"
      [] tok = "%f" -> "microsecond"
      [] OTHER      -> "none"

\* the fields strptime starts from
Epoch == [year |-> 1900, month |-> 1, day |-> 1, hour |-> 0, minute |-> 0,
          second |-> 0, microsecond |-> 0]

\* the fields found, None when the string does not match the format
RECURSIVE Scan(_, _, _, _, _)
Scan(fmt, i, s, p, acc) ==
    IF i > Len(fmt) THEN (IF p = Len(s) + 1 THEN <<acc>> ELSE <<>>)
    ELSE LET r == Directive(fmt[i], s, p)
             f == FieldOf(fmt[i])
         IN  IF r = NoParse THEN <<>>
             ELSE Scan(fmt, i + 1, s, r[2],
                       IF f = "none" THEN acc ELSE [acc EXCEPT ![f] = r[1]])

IsLeap(y) == y % 4 = 0 /\ (y % 100 # 0 \/ y % 400 = 0)

DaysInMonth(y, m) ==
    IF m = 2 THEN (IF IsLeap(y) THEN 29 ELSE 28)
    ELSE IF m \in {4, 6, 9, 11} THEN 30 ELSE 31

\* the checks of the datetime constructor
ValidDate(t) ==
    /\ t.year \in 1..9999
    /\ t.month \in 1..12
    /\ t.day \in 1..DaysInMonth(t.year, t.month)
    /\ t.hour \in 0..23
    /\ t.minute \in 0..59
    /\ t.second \in 0..59
    /\ t.microsecond \in 0..999999

\* datetime.strptime(s, fmt): the instant, or the exception raised
strptime(s, fmt) ==
    LET found == Scan(fmt, 1, s, 1, Epoch)
    IN  IF found # <<>> /\ ValidDate(found[1])
        THEN [exc |-> "", value |-> found]
        ELSE [exc |-> "ValueError", value |-> <<>>]

\* "%Y-%m-%dT%H:%M:%S.%fZ"
Layout5424 == <<"%Y", "-", "%m", "-", "%d", "T", "%H", ":", "%M", ":", "%S", ".", "%f", "Z">>
\* "%b %d %H:%M:%S"
Layout3164 == <<"%b", " ", "%d", " ", "%H", ":", "%M", ":", "%S">>

Name5424 == <<"RFC 5424 (Structured Data)">>
Name3164 == <<"RFC 3164 (Traditional Format)">>
NameUnknown == <<"Unknown Format">>

\* a normal return of detect_syslog_format
Return(format, timestamp, parsed) ==
    [exc |-> "", format |-> format, timestamp |-> timestamp, parsed |-> parsed]

\* an exception leaving detect_syslog_format
Raise(exc) == [exc |-> exc, format |-> <<>>, timestamp |-> <<>>, parsed |-> <<>>]

\* the same without the try: a ValueError leaves the function
ParseAndReturn_uncaught(name, timestamp, layout) ==
    LET r == strptime(timestamp[1], layout)
    IN  IF r.exc = "" THEN Return(name, timestamp, r.value) ELSE Raise(r.exc)

\* try: parsed_timestamp = datetime.strptime(...)
\* except ValueError: parsed_timestamp = None
\* return name, timestamp, parsed_timestamp
ParseAndReturn(name, timestamp, layout) ==
    LET r == strptime(timestamp[1], layout)
    IN  IF r.exc = "" THEN Return(name, timestamp, r.value)
        ELSE IF r.exc = "ValueError" THEN Return(name, timestamp, <<>>)
        ELSE Raise(r.exc)

\* the same with the first branch's name pasted into the second
detect_syslog_format_pasted_name(log_line) ==
    LET match_5424 == RFC5424_PATTERN(log_line)
        match_3164 == RFC3164_PATTERN(log_line)
    IN  IF match_5424 # <<>> THEN ParseAndReturn(Name5424, match_5424, Layout5424)
        ELSE IF match_3164 # <<>> THEN ParseAndReturn(Name5424, match_3164, Layout3164)
        ELSE Return(NameUnknown, <<>>, <<>>)

\* the same with "else:" for "elif match_3164:": group() of None
detect_syslog_format_else(log_line) ==
    LET match_5424 == RFC5424_PATTERN(log_line)
        match_3164 == RFC3164_PATTERN(log_line)
    IN  IF match_5424 # <<>> THEN ParseAndReturn(Name5424, match_5424, Layout5424)
        ELSE IF match_3164 # <<>> THEN ParseAndReturn(Name3164, match_3164, Layout3164)
        ELSE Raise("AttributeError")

detect_syslog_format(log_line) ==
    LET match_5424 == RFC5424_PATTERN(log_line)
        match_3164 == RFC3164_PATTERN(log_line)
    IN  IF match_5424 # <<>> THEN ParseAndReturn(Name5424, match_5424, Layout5424)
        ELSE IF match_3164 # <<>> THEN ParseAndReturn(Name3164, match_3164, Layout3164)
        ELSE Return(NameUnknown, <<>>, <<>>)

(***************************************************************************)
(* The input lines of a detector call.  A line is built from fields, as a  *)
(* sender formats it, or is any short text; gen keeps the fields.          *)
(***************************************************************************)
MaxLen == 4

Pad2(n) == <<DigitSeq[((n \div 10) % 10) + 1], DigitSeq[(n % 10) + 1]>>
Pad4(n) == Pad2(n \div 100) \o Pad2(n % 100)

SeqsUpTo(S, n) == UNION {[1..k -> S] : k \in 0..n}

\* "<34>1 "
Pri5424 == <<"<", "3", "4", ">", "1", " ">>
\* "<34>"
Pri3164 == <<"<", "3", "4", ">">>
\* " myhost myapp 1234 - - message body"
TailScenario2 == <<" ", "m", "y", "h", "o", "s", "t", " ", "m", "y", "a", "p", "p", " ",
                   "1", "2", "3", "4", " ", "-", " ", "-", " ", "m", "e", "s", "s", "a",
                   "g", "e", " ", "b", "o", "d", "y">>
\* " h.x a-b 7 [id x] m"
TailStructured == <<" ", "h", ".", "x", " ", "a", "-", "b", " ", "7", " ", "[", "i", "d",
                    " ", "x", "]", " ", "m">>
\* " h a - - m" : no numeric PROCID
TailNoProcid == <<" ", "h", " ", "a", " ", "-", " ", "-", " ", "m">>
\* " mymachine su: failure"
TailScenario1 == <<" ", "m", "y", "m", "a", "c", "h", "i", "n", "e", " ", "s", "u", ":",
                   " ", "f", "a", "i", "l", "u", "r", "e">>
\* " h m" and a final newline
TailNewline == <<" ", "h", " ", "m", "\n">>
\* " h" : no message
TailNoMessage == <<" ", "h">>

Fractions == {<<>>, <<"5">>, <<"1", "2", "3", "4", "5", "6">>,
              <<"1", "2", "3", "4", "5", "6", "7">>, <<ArabicThree>>}

Gen5424 ==
    [kind : {"rfc5424"}, pri : {<<>>, Pri5424}, y : {0, 2024, 2025}, mo : {2, 4, 13},
     d : {2, 29, 31}, h : {10, 24}, mi : {15}, s : {30, 60}, frac : Fractions,
     tail : {TailScenario2, TailStructured, TailNoProcid}]

Gen3164 ==
    [kind : {"rfc3164"}, pri : {<<>>, Pri3164},
     mon : {<<"O", "c", "t">>, <<"o", "c", "t">>, <<"F", "e", "b">>, <<"F", "o", "o">>,
            <<"O", "_", "1">>},
     day : {<<"1">>, <<"1", "1">>, <<"2", "9">>, <<"0">>, <<"9", "9">>},
     h : {22, 24}, mi : {14}, s : {15, 61},
     tail : {TailScenario1, TailNewline, TailNoMessage}]

\* "hello world"
HelloWorld == <<"h", "e", "l", "l", "o", " ", "w", "o", "r", "l", "d">>

GenRaw ==
    [kind : {"raw"}, text : SeqsUpTo({"a", "1", " ", "<", "\n"}, MaxLen) \cup {HelloWorld}]

\* the TIMESTAMP field as the sender writes it
Stamp5424(g) ==
    Pad4(g.y) \o <<"-">> \o Pad2(g.mo) \o <<"-">> \o Pad2(g.d) \o <<"T">> \o Pad2(g.h)
    \o <<":">> \o Pad2(g.mi) \o <<":">> \o Pad2(g.s)
    \o (IF g.frac = <<>> THEN <<>> ELSE <<".">> \o g.frac) \o <<"Z">>

Stamp3164(g) ==
    g.mon \o <<" ">> \o g.day \o <<" ">> \o Pad2(g.h) \o <<":">> \o Pad2(g.mi)
    \o <<":">> \o Pad2(g.s)

Render(g) ==
    CASE g.kind = "rfc5424" -> g.pri \o Stamp5424(g) \o g.tail
      [] g.kind = "rfc3164" -> g.pri \o Stamp3164(g) \o g.tail
      [] OTHER -> g.text

NoResult == [exc |-> "", format |-> <<>>, timestamp |-> <<>>, parsed |-> <<>>]

(***************************************************************************)
(* A call of detect_syslog_format on one line.                             *)
(***************************************************************************)
DetOff ==
    /\ gen = [kind |-> "raw", text |-> <<>>]
    /\ line = <<>>
    /\ result = NoResult
    /\ dpc = "off"

CliOff ==
    /\ argv = <<>>
    /\ fstatus = "ok"
    /\ fcontent = <<>>
    /\ badline = 0
    /\ pc = "off"
    /\ pos = 0
    /\ opens = 0
    /\ classified = <<>>
    /\ stdout = <<>>
    /\ stderr = <<>>
    /\ exitcode = -1

BakOff ==
    /\ dir1Exists = FALSE
    /\ dir2Exists = FALSE
    /\ dir1 = <<>>
    /\ dir2 = <<>>
    /\ statErr = {}
    /\ bpc = "off"
    /\ todo = {}
    /\ cur = <<>>
    /\ log = <<>>

InitDetect ==
    /\ gen \in Gen5424 \cup Gen3164 \cup GenRaw
    /\ line = Render(gen)
    /\ result = NoResult
    /\ dpc = "call"
    /\ CliOff
    /\ BakOff

Detect ==
    /\ dpc = "call"
    /\ result' = detect_syslog_format(line)
    /\ dpc' = "returned"
    /\ UNCHANGED <<gen, line, cliVars, bakVars>>

NextDetect == Detect

SpecDetect == InitDetect /\ [][NextDetect]_vars

(***************************************************************************)
(* analyze_syslog_file and the command line.                               *)
(***************************************************************************)
MaxArgs == 2
MaxLines == 3

\* str.strip()
RECURSIVE lstrip(_)
lstrip(s) == IF s # <<>> /\ Head(s) \in Whitespace THEN lstrip(Tail(s)) ELSE s

RECURSIVE rstrip(_)
rstrip(s) ==
    IF s # <<>> /\ s[Len(s)] \in Whitespace THEN rstrip(SubSeq(s, 1, Len(s) - 1)) ELSE s

strip(s) == rstrip(lstrip(s))

\* "<34>Oct 11 22:14:15 mymachine su: failure"
Scenario1 ==
    Pri3164 \o <<"O", "c", "t", " ", "1", "1", " ", "2", "2", ":", "1", "4", ":", "1", "5">>
    \o TailScenario1
\* "<34>1 2025-04-02T10:15:30.123456Z myhost myapp 1234 - - message body"
Scenario2 ==
    Pri5424 \o <<"2", "0", "2", "5", "-", "0", "4", "-", "0", "2", "T", "1", "0", ":", "1",
                 "5", ":", "3", "0", ".", "1", "2", "3", "4", "5", "6", "Z">>
    \o TailScenario2

\* the lines a file is made of, as the file iterator yields them
FileLines ==
    {<<"\n">>, <<" ", "\t", "\n">>, HelloWorld \o <<"\n">>,
     <<" ">> \o Scenario1 \o <<" ", "\n">>, Scenario2 \o <<"\n">>}

Out(tag, a, b) == [tag |-> tag, a |-> a, b |-> b]

\* print(f"Detected: ..."), and the two timestamp lines "if timestamp:"
Report(ln, r) ==
    <<Out("Detected", r.format, ln)>>
    \o (IF r.timestamp # <<>> /\ r.timestamp[1] # <<>>
        THEN <<Out("Extracted Timestamp", r.timestamp, <<>>),
               Out("Parsed Timestamp", r.parsed, <<>>)>>
        ELSE <<>>)

\* except Exception as e: print(f"Error reading file: {e}")
\* and the script runs to its end
ErrorReadingFile(e) ==
    /\ stdout' = Append(stdout, Out("Error reading file", <<e>>, <<>>))
    /\ exitcode' = 0
    /\ pc' = "exit"

InitCLI ==
    /\ argv \in SeqsUpTo({"syslog.log"}, MaxArgs)
    /\ fstatus \in {"ok", "missing", "denied"}
    /\ fcontent \in SeqsUpTo(FileLines, MaxLines)
    /\ badline \in 0..Len(fcontent)
    /\ fstatus # "ok" => fcontent = <<>> /\ badline = 0
    /\ pc = "main"
    /\ pos = 0
    /\ opens = 0
    /\ classified = <<>>
    /\ stdout = <<>>
    /\ stderr = <<>>
    /\ exitcode = -1
    /\ DetOff
    /\ BakOff

\* if len(sys.argv) != 2: print usage; sys.exit(1)
Main ==
    /\ pc = "main"
    /\ IF Len(argv) # 1
       THEN /\ stdout' = Append(stdout, Out("Usage", <<>>, <<>>))
            /\ exitcode' = 1
            /\ pc' = "exit"
       ELSE /\ pc' = "open"
            /\ UNCHANGED <<stdout, exitcode>>
    /\ UNCHANGED <<argv, fstatus, fcontent, badline, pos, opens, classified, stderr,
                   detVars, bakVars>>

\* with open(file_path, 'r', encoding='utf-8') as file:
OpenFile ==
    /\ pc = "open"
    /\ opens' = opens + 1
    /\ IF fstatus = "ok"
       THEN /\ pc' = "iter"
            /\ UNCHANGED <<stdout, exitcode>>
       ELSE ErrorReadingFile(IF fstatus = "missing" THEN "FileNotFoundError"
                             ELSE "PermissionError")
    /\ UNCHANGED <<argv, fstatus, fcontent, badline, pos, classified, stderr,
                   detVars, bakVars>>

\* ReadLine without the break: the loop goes on after a line is classified
ReadLine_no_break ==
    /\ pc = "iter"
    /\ \/ /\ pos = Len(fcontent)
          /\ pc' = "exit"
          /\ exitcode' = 0
          /\ UNCHANGED <<pos, classified, stdout>>
       \/ /\ pos < Len(fcontent)
          /\ pos < badline
          /\ ErrorReadingFile("UnicodeDecodeError")
          /\ UNCHANGED <<pos, classified>>
       \/ /\ pos < Len(fcontent)
          /\ pos + 1 # badline
          /\ LET ln == strip(fcontent[pos + 1])
                 r == detect_syslog_format(ln)
             IN  IF ln = <<>>
                 THEN /\ pos' = pos + 1
                      /\ UNCHANGED <<pc, exitcode, classified, stdout>>
                 ELSE /\ classified' = Append(classified, ln)
                      /\ pos' = pos + 1
                      /\ IF r.exc # ""
                         THEN ErrorReadingFile(r.exc)
                         ELSE /\ stdout' = stdout \o Report(ln, r)
                              /\ UNCHANGED <<pc, exitcode>>
    /\ UNCHANGED <<argv, fstatus, fcontent, badline, opens, stderr, detVars, bakVars>>

\* One turn of "for line in file:".  The iterator decodes the file a buffer
\* at a time, so bytes that are not UTF-8 raise UnicodeDecodeError at the
\* read of their own line or of an earlier one.
ReadLine ==
    /\ pc = "iter"
    /\ \/ /\ pos = Len(fcontent)
          /\ pc' = "exit"
          /\ exitcode' = 0
          /\ UNCHANGED <<pos, classified, stdout>>
       \/ /\ pos < Len(fcontent)
          /\ pos < badline
          /\ ErrorReadingFile("UnicodeDecodeError")
          /\ UNCHANGED <<pos, classified>>
       \/ /\ pos < Len(fcontent)
          /\ pos + 1 # badline
          /\ LET ln == strip(fcontent[pos + 1])
                 r == detect_syslog_format(ln)
             IN  IF ln = <<>>
                 THEN /\ pos' = pos + 1
                      /\ UNCHANGED <<pc, exitcode, classified, stdout>>
                 ELSE /\ classified' = Append(classified, ln)
                      /\ pos' = pos + 1
                      /\ IF r.exc # ""
                         THEN ErrorReadingFile(r.exc)
                         ELSE /\ stdout' = stdout \o Report(ln, r)
                              /\ exitcode' = 0
                              /\ pc' = "exit"
    /\ UNCHANGED <<argv, fstatus, fcontent, badline, opens, stderr, detVars, bakVars>>

NextCLI == Main \/ OpenFile \/ ReadLine

SpecCLI == InitCLI /\ [][NextCLI]_vars

(***************************************************************************)
(* process_log_files over a source and a destination directory.  A file    *)
(* name is a sequence of parts, so that dest_file + '.gz' is a             *)
(* concatenation.  The two directories are distinct.                       *)
(***************************************************************************)
LargeMB == 500
BytesPerMB == 1024 * 1024

Names == {<<"a.log">>, <<"a.log", ".gz">>, <<"b.log">>}

\* compressed_file = dest_file + '.gz'
Gz(n) == n \o <<".gz">>

Dir2Names == Names \cup {Gz(n) : n \in Names}

Sizes == {0, LargeMB * BytesPerMB, LargeMB * BytesPerMB + 1}

Entries ==
    [kind : {"none", "dir"}, size : {0}] \cup [kind : {"file"}, size : Sizes]

\* os.listdir(dir1)
listdir == {n \in Names : dir1[n].kind # "none"}

\* os.path.isfile(src_file)
isfile(n) == dir1[n].kind = "file"

\* get_file_size_mb, in units of 1/BytesPerMB megabyte (the division by
\* 1024 * 1024 is exact in floating point for a size below 2^53): the size
\* in bytes, or 0 when the file is gone or its size cannot be read
get_file_size_mb(n) == IF n \in statErr THEN 0 ELSE dir1[n].size

\* the same with >= for >
IsLarge_inclusive(n) == get_file_size_mb(n) >= LargeMB * BytesPerMB

\* if file_size_mb > 500:
IsLarge(n) == get_file_size_mb(n) > LargeMB * BytesPerMB

Log(level, msg, n) == [level |-> level, msg |-> msg, file |-> n]

File(fmt, n) == <<[fmt |-> fmt, from |-> n]>>

InitBackup ==
    /\ dir1Exists \in BOOLEAN
    /\ dir2Exists \in BOOLEAN
    /\ dir1 \in [Names -> Entries]
    /\ ~dir1Exists => \A n \in Names : dir1[n].kind = "none"
    /\ dir2 = [n \in Dir2Names |-> <<>>]
    /\ statErr \in SUBSET {n \in Names : dir1[n].kind = "file"}
    /\ bpc = "start"
    /\ todo = {}
    /\ cur = <<>>
    /\ log = <<>>
    /\ DetOff
    /\ CliOff

\* configure_logging, the two os.path.exists checks and os.listdir
Start ==
    /\ bpc = "start"
    /\ IF ~dir1Exists
       THEN /\ log' = log \o <<Log("INFO", "Starting log file processing", <<>>),
                               Log("ERROR", "Source directory does not exist", <<>>)>>
            /\ bpc' = "done"
            /\ UNCHANGED todo
       ELSE IF ~dir2Exists
       THEN /\ log' = log \o <<Log("INFO", "Starting log file processing", <<>>),
                               Log("ERROR", "Destination directory does not exist", <<>>)>>
            /\ bpc' = "done"
            /\ UNCHANGED todo
       ELSE /\ log' = Append(log, Log("INFO", "Starting log file processing", <<>>))
            /\ todo' = listdir
            /\ bpc' = "loop"
    /\ UNCHANGED <<dir1Exists, dir2Exists, dir1, dir2, statErr, cur, detVars, cliVars>>

\* the head of one turn of "for filename in os.listdir(dir1):", in the
\* order the listing happens to have; or the end of the loop
NextFile ==
    /\ bpc = "loop"
    /\ \/ /\ todo = {}
          /\ log' = Append(log, Log("INFO", "Log file processing complete.", <<>>))
          /\ bpc' = "done"
          /\ UNCHANGED <<todo, cur>>
       \/ \E n \in todo :
            /\ todo' = todo \ {n}
            /\ IF ~isfile(n)
               THEN UNCHANGED <<log, bpc, cur>>
               ELSE IF IsLarge(n)
               THEN /\ log' = Append(log, Log("INFO", "Found large file", n))
                    /\ cur' = n
                    /\ bpc' = "copy"
               ELSE /\ log' = Append(log, Log("INFO", "Skipping file", n))
                    /\ UNCHANGED <<bpc, cur>>
    /\ UNCHANGED <<dir1Exists, dir2Exists, dir1, dir2, statErr, detVars, cliVars>>

\* copy_success = copy_file(src_file, dest_file); a copy that fails may
\* leave a part of the file behind
CopyStep ==
    /\ bpc = "copy"
    /\ \/ /\ dir2' = [dir2 EXCEPT ![cur] = File("copy", cur)]
          /\ log' = Append(log, Log("INFO", "Successfully copied", cur))
          /\ bpc' = "compress"
       \/ /\ \E left \in {dir2[cur], File("partial", cur)} :
                dir2' = [dir2 EXCEPT ![cur] = left]
          /\ log' = log \o <<Log("ERROR", "Error copying file", cur),
                             Log("ERROR", "Failed to copy file", cur)>>
          /\ bpc' = "loop"
    /\ UNCHANGED <<dir1Exists, dir2Exists, dir1, statErr, todo, cur, detVars, cliVars>>

\* CompressStep with the delete not gated on compress_success
CompressStep_ungated ==
    /\ bpc = "compress"
    /\ \/ /\ dir2' = [dir2 EXCEPT ![Gz(cur)] = File("gzip", dir2[cur][1].from)]
          /\ log' = Append(log, Log("INFO", "Successfully compressed", cur))
       \/ /\ \E left \in {dir2[Gz(cur)], File("partial", cur)} :
                dir2' = [dir2 EXCEPT ![Gz(cur)] = left]
          /\ log' = log \o <<Log("ERROR", "Error compressing file", cur),
                             Log("ERROR", "Failed to compress file", cur)>>
    /\ bpc' = "delete"
    /\ UNCHANGED <<dir1Exists, dir2Exists, dir1, statErr, todo, cur, detVars, cliVars>>

\* compress_success = compress_file(dest_file, compressed_file)
CompressStep ==
    /\ bpc = "compress"
    /\ \/ /\ dir2' = [dir2 EXCEPT ![Gz(cur)] = File("gzip", dir2[cur][1].from)]
          /\ log' = Append(log, Log("INFO", "Successfully compressed", cur))
          /\ bpc' = "delete"
       \/ /\ \E left \in {dir2[Gz(cur)], File("partial", cur)} :
                dir2' = [dir2 EXCEPT ![Gz(cur)] = left]
          /\ log' = log \o <<Log("ERROR", "Error compressing file", cur),
                             Log("ERROR", "Failed to compress file", cur)>>
          /\ bpc' = "loop"
    /\ UNCHANGED <<dir1Exists, dir2Exists, dir1, statErr, todo, cur, detVars, cliVars>>

\* delete_success = delete_file(dest_file)
DeleteStep ==
    /\ bpc = "delete"
    /\ \/ /\ dir2' = [dir2 EXCEPT ![cur] = <<>>]
          /\ log' = log \o <<Log("INFO", "Successfully deleted file", cur),
                             Log("INFO", "Successfully processed", cur)>>
       \/ /\ log' = log \o <<Log("ERROR", "Error deleting file", cur),
                             Log("ERROR", "Failed to delete original file", cur)>>
          /\ UNCHANGED dir2
    /\ bpc' = "loop"
    /\ UNCHANGED <<dir1Exists, dir2Exists, dir1, statErr, todo, cur, detVars, cliVars>>

NextBackup == Start \/ NextFile \/ CopyStep \/ CompressStep \/ DeleteStep

SpecBackup == InitBackup /\ [][NextBackup]_vars

(***************************************************************************)
(* Properties of detect_syslog_format (under SpecDetect).                  *)
(***************************************************************************)

\* C1: the grammars are applied in a fixed order and the first that matches
\* wins: the result is the RFC 5424 name whenever the RFC 5424 pattern
\* matches the line, it is the RFC 3164 name exactly when the RFC 5424
\* pattern fails and the RFC 3164 pattern matches, and the raw timestamp
\* returned is the timestamp group of the winning pattern.
C1_FirstMatchWins ==
    dpc = "returned" =>
        /\ Matches5424(line) # {} =>
             /\ result.format = Name5424
             /\ result.timestamp = RFC5424_PATTERN(line)
        /\ result.format = Name3164 <=>
             (Matches5424(line) = {} /\ Matches3164(line) # {})
        /\ result.format = Name3164 => result.timestamp = RFC3164_PATTERN(line)
        /\ gen.kind = "rfc5424" /\ result.format = Name5424 =>
             result.timestamp = <<Stamp5424(gen)>>
        /\ gen.kind = "rfc3164" /\ result.format = Name3164 =>
             result.timestamp = <<Stamp3164(gen)>>

\* a call on a line with a priority prefix that the RFC 5424 pattern matches
C1_Witness ==
    /\ dpc = "returned"
    /\ gen.kind = "rfc5424"
    /\ gen.pri = Pri5424
    /\ Matches5424(line) # {}
    /\ result.format = Name5424

\* C2: a line that matches neither pattern (the empty line included) gives
\* the "Unknown Format" name with no raw and no parsed timestamp, and no
\* line at all makes the call raise.
C2_UnknownIsData ==
    dpc = "returned" =>
        /\ result.exc = ""
        /\ Matches5424(line) = {} /\ Matches3164(line) = {} =>
             result = Return(NameUnknown, <<>>, <<>>)

\* the call on the empty line has returned the sentinel
C2_Witness ==
    /\ dpc = "returned"
    /\ line = <<>>
    /\ result.format = NameUnknown

\* the matched layout cannot parse the captured timestamp
Unparsable ==
    \/ /\ Matches5424(line) # {}
       /\ strptime(RFC5424_PATTERN(line)[1], Layout5424).exc # ""
    \/ /\ Matches5424(line) = {}
       /\ Matches3164(line) # {}
       /\ strptime(RFC3164_PATTERN(line)[1], Layout3164).exc # ""

\* C3: when a pattern matches and its timestamp cannot be parsed, the call
\* still returns the name of the matched format and the raw timestamp as it
\* stands in the line, with only the parsed instant absent; the result is
\* not "Unknown Format" and nothing is raised.
C3_ParseFailureKeepsFormat ==
    dpc = "returned" /\ Unparsable =>
        /\ result.exc = ""
        /\ result.parsed = <<>>
        /\ result.format = (IF Matches5424(line) # {} THEN Name5424 ELSE Name3164)
        /\ gen.kind = "rfc5424" => result.timestamp = <<Stamp5424(gen)>>
        /\ gen.kind = "rfc3164" => result.timestamp = <<Stamp3164(gen)>>

\* "Foo 99 24:14:61" was matched by the RFC 3164 pattern and not parsed
C3_Witness ==
    /\ dpc = "returned"
    /\ gen.kind = "rfc3164"
    /\ gen.mon = <<"F", "o", "o">>
    /\ gen.day = <<"9", "9">>
    /\ result.format = Name3164
    /\ result.timestamp = <<Stamp3164(gen)>>
    /\ result.parsed = <<>>

\* the microseconds a fraction of 0 to 6 digits stands for
RECURSIVE Micro(_, _)
Micro(frac, width) ==
    IF width = 0 THEN 0
    ELSE (IF frac = <<>> THEN 0 ELSE DigitVal(Head(frac))) * (10 ^ (width - 1))
         + Micro(IF frac = <<>> THEN <<>> ELSE Tail(frac), width - 1)

\* a generated RFC 5424 line of the grammar's shape whose timestamp follows
\* YYYY-MM-DDThh:mm:ss[.ffffff]Z with calendar fields in range
Conforms5424 ==
    /\ gen.kind = "rfc5424"
    /\ gen.tail \in {TailScenario2, TailStructured}
    /\ gen.y \in 1..9999
    /\ gen.mo \in 1..12
    /\ gen.d \in 1..DaysInMonth(gen.y, gen.mo)
    /\ gen.h \in 0..23
    /\ gen.mi \in 0..59
    /\ gen.s \in 0..59
    /\ Len(gen.frac) <= 6
    /\ \A i \in 1..Len(gen.frac) : gen.frac[i] \in AsciiDigits

\* the name, the raw timestamp and the instant of a conforming line
Decoded5424 ==
    Return(Name5424, <<Stamp5424(gen)>>,
           <<[year |-> gen.y, month |-> gen.mo, day |-> gen.d, hour |-> gen.h,
              minute |-> gen.mi, second |-> gen.s, microsecond |-> Micro(gen.frac, 6)]>>)

\* C4: every conforming RFC 5424 line, its fraction of a second optional
\* and 1 to 6 digits wide when present, gives the RFC 5424 name, the
\* TIMESTAMP substring and the instant the substring encodes.
C4_Rfc5424Decoded ==
    dpc = "returned" /\ Conforms5424 => result = Decoded5424

\* C4, for the timestamps that do carry a fraction of a second
C4_WithFraction ==
    dpc = "returned" /\ Conforms5424 /\ gen.frac # <<>> => result = Decoded5424

(***************************************************************************)
(* Properties of analyze_syslog_file and the command line (SpecCLI).       *)
(***************************************************************************)
IsBlank(l) == \A i \in 1..Len(l) : l[i] \in Whitespace

NonBlank == {i \in 1..Len(fcontent) : ~IsBlank(fcontent[i])}

FirstNonBlank == CHOOSE i \in NonBlank : \A j \in NonBlank : i <= j

ErrorPrinted == \E i \in 1..Len(stdout) : stdout[i].tag = "Error reading file"

\* C5: analyze_syslog_file reads the lines in order, skips every blank
\* line, classifies the first line that is not blank and stops: at most one
\* line is ever classified, it is the earliest non-blank one, blank lines
\* report nothing, and once the file has been worked through without a
\* read error the number of lines classified is 1 if it has a non-blank
\* line and 0 if it is empty or all blank.
C5_FirstLineOnly ==
    /\ Len(classified) <= 1
    /\ classified # <<>> =>
         /\ NonBlank # {}
         /\ classified[1] = strip(fcontent[FirstNonBlank])
         /\ pos = FirstNonBlank
         /\ pc = "exit"
    /\ \A i \in 1..Len(stdout) :
         stdout[i].tag = "Detected" => classified = <<stdout[i].b>>
    /\ pc = "exit" /\ Len(argv) = 1 /\ ~ErrorPrinted =>
         Len(classified) = (IF NonBlank = {} THEN 0 ELSE 1)

\* a file of a blank line, a classified line and one more non-blank line
C5_Witness ==
    /\ pc = "exit"
    /\ Len(fcontent) = 3
    /\ IsBlank(fcontent[1])
    /\ ~IsBlank(fcontent[2])
    /\ ~IsBlank(fcontent[3])
    /\ classified = <<strip(fcontent[2])>>

\* C6: with one path argument and a file that cannot be opened or read, the
\* process prints an error message and ends with exit code 1.
C6_IOFailureExitsOne ==
    pc = "exit" /\ Len(argv) = 1 /\ (fstatus # "ok" \/ ErrorPrinted) =>
        ErrorPrinted /\ exitcode = 1

\* C7: with any number of arguments other than one, the usage message goes
\* to the error stream, the exit code is 1, and no file is opened and no
\* line classified.
C7_UsageOnStderr ==
    pc = "exit" /\ Len(argv) # 1 =>
        /\ \E i \in 1..Len(stderr) : stderr[i].tag = "Usage"
        /\ exitcode = 1
        /\ opens = 0
        /\ classified = <<>>

\* C7 but for the stream: the exit code and the absence of file I/O
C7_ExitOneNoIO ==
    pc = "exit" /\ Len(argv) # 1 =>
        /\ \E i \in 1..Len(stdout) : stdout[i].tag = "Usage"
        /\ exitcode = 1
        /\ opens = 0
        /\ classified = <<>>

(***************************************************************************)
(* Properties of process_log_files (SpecBackup).                           *)
(***************************************************************************)
Logged(msg, n) == {i \in 1..Len(log) : log[i].msg = msg /\ log[i].file = n}

NoStepFailed == \A i \in 1..Len(log) : log[i].level # "ERROR"

\* C8: after a run in which every copy, compress and delete succeeded, for
\* each regular file of dir1 above 500MB the archive <name>.gz exists in
\* dir2 and the file is gone from dir1.
C8_ArchivedAndRemoved ==
    bpc = "done" /\ NoStepFailed /\ statErr = {} =>
        \A n \in Names :
            dir1Exists /\ dir2Exists /\ Logged("Found large file", n) # {} =>
                /\ dir2[Gz(n)] # <<>>
                /\ dir2[Gz(n)][1].fmt = "gzip"
                /\ dir1[n].kind = "none"

CopyTried(n) == Logged("Successfully copied", n) \cup Logged("Error copying file", n)
CompressTried(n) ==
    Logged("Successfully compressed", n) \cup Logged("Error compressing file", n)
DeleteTried(n) ==
    Logged("Successfully deleted file", n) \cup Logged("Error deleting file", n)

Before(I, J) == \A j \in J : \E i \in I : i < j

\* C9: for each file the steps are ordered and gated on success: compress
\* is tried only after the copy succeeded, delete only after the compress
\* succeeded, and at the delete the complete archive of the file is in
\* dir2; a failed step ends the work on that file only: when the function
\* is done, every regular file of dir1 has been looked at, and every large
\* one has had its copy tried.
C9_OrderedAndGated ==
    /\ \A n \in Names :
         /\ Before(Logged("Successfully copied", n), CompressTried(n))
         /\ Before(Logged("Successfully compressed", n), DeleteTried(n))
         /\ Before(Logged("Found large file", n), CopyTried(n))
         /\ Cardinality(CopyTried(n)) <= 1
    /\ bpc = "delete" => dir2[Gz(cur)] = File("gzip", cur)
    /\ bpc = "done" /\ dir1Exists /\ dir2Exists =>
         \A n \in Names :
             isfile(n) =>
                 /\ Logged("Found large file", n) \cup Logged("Skipping file", n) # {}
                 /\ IsLarge(n) => CopyTried(n) # {}

\* a step failed for one file and a file visited later went through
C9_Witness ==
    /\ bpc = "done"
    /\ \E n, m \in Names :
         /\ n # m
         /\ Logged("Error compressing file", n) # {}
         /\ DeleteTried(n) = {}
         /\ Before(Logged("Failed to compress file", n),
                   Logged("Successfully processed", m))
         /\ Logged("Successfully processed", m) # {}

\* not a regular file above 500MB whose size can be read
Ineligible(n) ==
    \/ dir1[n].kind # "file"
    \/ dir1[n].size <= 500 * 1024 * 1024
    \/ n \in statErr

Touched(n) ==
    \/ CopyTried(n) \cup CompressTried(n) \cup DeleteTried(n) # {}
    \/ \E m \in Dir2Names : dir2[m] # <<>> /\ dir2[m][1].from = n

\* C10: nothing is copied, compressed or deleted, and dir2 gains no file,
\* for an entry of dir1 that is a directory or no file, a file of at most
\* exactly 500MB, or a file whose size cannot be read; and with dir1 or
\* dir2 missing nothing is copied, compressed or deleted at all.
C10_Untouched ==
    /\ \A n \in Names : Ineligible(n) => ~Touched(n)
    /\ ~dir1Exists \/ ~dir2Exists =>
         /\ \A n \in Names : ~Touched(n)
         /\ \A m \in Dir2Names : dir2[m] = <<>>
         /\ bpc \in {"start", "done"}

\* a file of exactly 500MB, a directory and an unreadable file were left
\* alone by a run that archived a large file
C10_Witness ==
    /\ bpc = "done"
    /\ dir1[<<"a.log">>] = [kind |-> "file", size |-> 500 * 1024 * 1024]
    /\ Logged("Skipping file", <<"a.log">>) # {}
    /\ dir1[<<"a.log", ".gz">>].kind = "file"
    /\ <<"a.log", ".gz">> \in statErr
    /\ Logged("Successfully processed", <<"b.log">>) # {}

====
